---- MODULE Spec2Model ----
(***************************************************************************)
(* A model of the fetch engine of linkScraper: the sliding-window rate     *)
(* limiter (utils/request_utils.py), the rotating proxy pool (proxy.py)    *)
(* and the retrying request layer (scraper.py, Scraper._make_request).     *)
(*                                                                         *)
(* Time is a discrete clock: one tick is one unit of time.time().  None is *)
(* encoded as -1, so that it can be compared with the numbers a setting    *)
(* may hold; Truthy is Python's truth value of a setting.                  *)
(***************************************************************************)
EXTENDS Integers, Sequences, FiniteSets, TLC

\* ---------------------------------------------------------------- bounds
\* The clock stops advancing at MaxTime.
MaxTime == 3
\* A caller of the rate limiter makes at most MaxCalls calls.
MaxCalls == 3
\* The largest rate_limit / rate_second_delta a limiter is constructed with.
MaxSetting == 2

\* Python's None (APIClient.RATE_LIMIT = None), encoded as a number no
\* setting takes.
None == -1

\* The callers of one limiter: a thread, or a coroutine of one event loop.
Callers == {"a", "b"}
NoCaller == "none"

VARIABLES
    clock,              \* time.time()
    rate_limit,         \* APIRateLimiter._rate_limit
    rate_second_delta,  \* APIRateLimiter._rate_second_delta
    request_times,      \* APIRateLimiter._request_times, oldest first
    rl_pc,              \* each caller's position in limit() / async_limit()
    rl_now,             \* each caller's local `now`
    rl_entry,           \* the entry point each caller is in
    rl_calls,           \* calls started, per caller
    rl_returns,         \* calls returned, per caller
    rl_polled,          \* the caller slept at least once in the current call
    admitted,           \* every timestamp ever recorded, in order (history)
    loop_running,       \* the coroutine the event loop is running, or NoCaller
    co_other_ready,     \* per coroutine: another one was ready while it polled
    co_other_ran,       \* per coroutine: another one ran while it polled
    proxy_list,         \* Proxy.proxy_list
    last_rotate_time,   \* Proxy.last_rotate_time (None before the first refresh)
    offset,             \* Proxy.offset = ROTATE_PROXY_OFFSET
    rotated,            \* the last rotate_proxies() printed "Rotating proxies"
    latest_listing,     \* the filtered listing of the most recent refresh (history)
    evicted_since,      \* entries removed from the pool since that refresh (history)
    mr_pc,              \* position in Scraper._make_request
    mr_use_proxy,       \* its use_proxy argument
    mr_attempt,         \* tenacity's attempt number
    mr_proxy,           \* proxy_choice
    mr_result,          \* how the call ended
    mr_evictions,       \* remove_bad_proxy calls of this call (history)
    mr_outcomes,        \* the transport's outcome of each attempt sent (history)
    mr_admits,          \* rate-limiter admissions in this call (history)
    fetches,            \* calls of _make_request started
    ar_pc,              \* position in async_request
    ar_outcomes,        \* the transport's outcome of each of its attempts (history)
    ar_admits,          \* rate-limiter admissions of the async call (history)
    ar_result,          \* what async_request returned
    site,               \* navigate's site argument
    nlocs,              \* the length of navigate's locations argument
    depth,              \* Scraper.depth
    urls,               \* Scraper.urls, the frontier
    current_page,       \* Scraper.current_page
    current_counter,    \* Scraper.current_counter
    cr_pc,              \* position in navigate / _request
    cr_loc,             \* index of navigate's current location
    cr_resp_ok,         \* truth value of _request's `resp` (Response.ok)
    cr_soup,            \* _request's `soup`: the parsed page, or None
    cr_prev,            \* _request's previous_url_count
    cr_status,          \* what the last _request returned
    nav_result,         \* what navigate returned
    cr_requests,        \* page requests sent, as <<location, page>> (history)
    cr_entry,           \* <<current_counter, current_page>> at each location start (history)
    cr_first,           \* matching links on the first page of each location (history)
    sc_pc,              \* position in scrape
    saved_pages,        \* the page files _save_pages has written
    urls_file           \* the lines of urls.txt, or NoFile

rlVars == <<rate_limit, rate_second_delta, request_times, rl_pc, rl_now,
            rl_entry, rl_calls, rl_returns, rl_polled, admitted>>
loopVars == <<loop_running, co_other_ready, co_other_ran>>
poolVars == <<proxy_list, last_rotate_time, offset, rotated, latest_listing,
              evicted_since>>
fetchVars == <<mr_pc, mr_use_proxy, mr_attempt, mr_proxy, mr_result,
               mr_evictions, mr_outcomes, mr_admits, fetches>>
areqVars == <<ar_pc, ar_outcomes, ar_admits, ar_result>>
navVars == <<site, nlocs, depth, urls, current_page, current_counter, cr_pc,
             cr_loc, cr_resp_ok, cr_soup, cr_prev, cr_status, nav_result,
             cr_requests, cr_entry, cr_first>>
scrapeVars == <<sc_pc, saved_pages, urls_file>>
crawlVars == <<navVars, scrapeVars>>

\* ------------------------------------------------------- the rate limiter

\* Python's truth value of a setting: None and 0 are false.
Truthy(x) == x # None /\ x # 0

\* The mutant of LimiterOn: only rate_limit is tested.
LimiterOnOnlyLimit(limit, delta) == Truthy(limit)

\* `if self._rate_limit and self._rate_second_delta:`
LimiterOn(limit, delta) == Truthy(limit) /\ Truthy(delta)

\* The mutant of Expired: no entry ever expires.
ExpiredNever(now, t, delta) == FALSE

\* The mutant of Expired: an entry is kept one time unit longer.
ExpiredLate(now, t, delta) == now - t > delta + 1

\* `now - self._request_times[0] > self._rate_second_delta`
Expired(now, t, delta) == now - t > delta

\* The mutant of HasRoom: off by one.
HasRoomOffByOne(times, limit) == Len(times) <= limit

\* `len(self._request_times) < self._rate_limit`
HasRoom(times, limit) == Len(times) < limit

\* The inner while loop of limit(), run to its end: entries are popped from the
\* left while the oldest one is expired.
RECURSIVE TrimAll(_, _, _)
TrimAll(times, now, delta) ==
    IF times # <<>> /\ Expired(now, Head(times), delta)
    THEN TrimAll(Tail(times), now, delta)
    ELSE times

SetAt(f, c, v) == [f EXCEPT ![c] = v]

\* A caller enters limit() or async_limit(): with a setting unset or zero the
\* call returns at once (the caller is "admitted"); otherwise it enters the
\* polling loop.
LimitCall(c, entry) ==
    /\ rl_pc[c] = "idle"
    /\ rl_calls[c] < MaxCalls
    /\ rl_calls' = SetAt(rl_calls, c, rl_calls[c] + 1)
    /\ rl_entry' = SetAt(rl_entry, c, entry)
    /\ rl_polled' = SetAt(rl_polled, c, FALSE)
    /\ IF LimiterOn(rate_limit, rate_second_delta)
       THEN /\ rl_pc' = SetAt(rl_pc, c, "now")
            /\ UNCHANGED rl_returns
       ELSE /\ rl_pc' = SetAt(rl_pc, c, "admitted")
            /\ rl_returns' = SetAt(rl_returns, c, rl_returns[c] + 1)
    /\ UNCHANGED <<clock, rate_limit, rate_second_delta, request_times, rl_now,
                   admitted>>

\* `now = time.time()`
LimitNow(c) ==
    /\ rl_pc[c] = "now"
    /\ rl_now' = SetAt(rl_now, c, clock)
    /\ rl_pc' = SetAt(rl_pc, c, "trim")
    /\ UNCHANGED <<clock, rate_limit, rate_second_delta, request_times, rl_entry,
                   rl_calls, rl_returns, rl_polled, admitted>>

\* `while self._request_times:` the test of the inner loop.
LimitTrimTest(c) ==
    /\ rl_pc[c] = "trim"
    /\ rl_pc' = SetAt(rl_pc, c, IF request_times # <<>> THEN "cmp" ELSE "check")
    /\ UNCHANGED <<clock, rate_limit, rate_second_delta, request_times, rl_now,
                   rl_entry, rl_calls, rl_returns, rl_polled, admitted>>

\* `if now - self._request_times[0] > self._rate_second_delta:` ... `else: break`
LimitTrimCmp(c) ==
    /\ rl_pc[c] = "cmp"
    /\ request_times # <<>>
    /\ rl_pc' = SetAt(rl_pc, c,
                      IF Expired(rl_now[c], Head(request_times), rate_second_delta)
                      THEN "pop" ELSE "check")
    /\ UNCHANGED <<clock, rate_limit, rate_second_delta, request_times, rl_now,
                   rl_entry, rl_calls, rl_returns, rl_polled, admitted>>

\* `self._request_times.popleft()`
LimitTrimPop(c) ==
    /\ rl_pc[c] = "pop"
    /\ request_times # <<>>
    /\ request_times' = Tail(request_times)
    /\ rl_pc' = SetAt(rl_pc, c, "trim")
    /\ UNCHANGED <<clock, rate_limit, rate_second_delta, rl_now, rl_entry,
                   rl_calls, rl_returns, rl_polled, admitted>>

\* `if len(self._request_times) < self._rate_limit: break`
LimitCheck(c) ==
    /\ rl_pc[c] = "check"
    /\ rl_pc' = SetAt(rl_pc, c,
                      IF HasRoom(request_times, rate_limit) THEN "append" ELSE "sleep")
    /\ UNCHANGED <<clock, rate_limit, rate_second_delta, request_times, rl_now,
                   rl_entry, rl_calls, rl_returns, rl_polled, admitted>>

\* limit(): `time.sleep(0.00001)`, then the outer loop starts over.
LimitSleep(c) ==
    /\ rl_pc[c] = "sleep"
    /\ rl_entry[c] = "limit"
    /\ rl_pc' = SetAt(rl_pc, c, "now")
    /\ rl_polled' = SetAt(rl_polled, c, TRUE)
    /\ UNCHANGED <<clock, rate_limit, rate_second_delta, request_times, rl_now,
                   rl_entry, rl_calls, rl_returns, admitted>>

\* async_limit(): `asyncio.sleep(0.00001)` is called without await: the
\* coroutine object is made and dropped, nothing suspends, and the outer loop
\* starts over with the event loop still running this coroutine.
AsyncLimitSleep(c) ==
    /\ rl_pc[c] = "sleep"
    /\ rl_entry[c] = "async_limit"
    /\ rl_pc' = SetAt(rl_pc, c, "now")
    /\ rl_polled' = SetAt(rl_polled, c, TRUE)
    /\ UNCHANGED <<clock, rate_limit, rate_second_delta, request_times, rl_now,
                   rl_entry, rl_calls, rl_returns, admitted>>

\* `self._request_times.append(time.time())`, and the call returns.
LimitAppend(c) ==
    /\ rl_pc[c] = "append"
    /\ request_times' = Append(request_times, clock)
    /\ admitted' = Append(admitted, clock)
    /\ rl_pc' = SetAt(rl_pc, c, "admitted")
    /\ rl_returns' = SetAt(rl_returns, c, rl_returns[c] + 1)
    /\ UNCHANGED <<clock, rate_limit, rate_second_delta, rl_now, rl_entry,
                   rl_calls, rl_polled>>

\* __exit__ / __aexit__ do nothing: the guarded block ends and the caller may
\* call again.
LimitExit(c) ==
    /\ rl_pc[c] = "admitted"
    /\ rl_pc' = SetAt(rl_pc, c, "idle")
    /\ UNCHANGED <<clock, rate_limit, rate_second_delta, request_times, rl_now,
                   rl_entry, rl_calls, rl_returns, rl_polled, admitted>>

\* time.time() advances.
Tick ==
    /\ clock < MaxTime
    /\ clock' = clock + 1

\* The settings a limiter is constructed with.
Settings == {None} \cup (0..MaxSetting)

\* APIRateLimiter.__init__
InitLimiter(limit, delta) ==
    /\ rate_limit = limit
    /\ rate_second_delta = delta
    /\ request_times = <<>>
    /\ rl_pc = [c \in Callers |-> "idle"]
    /\ rl_now = [c \in Callers |-> 0]
    /\ rl_entry = [c \in Callers |-> "limit"]
    /\ rl_calls = [c \in Callers |-> 0]
    /\ rl_returns = [c \in Callers |-> 0]
    /\ rl_polled = [c \in Callers |-> FALSE]
    /\ admitted = <<>>

InitLoopIdle ==
    /\ loop_running = NoCaller
    /\ co_other_ready = [c \in Callers |-> FALSE]
    /\ co_other_ran = [c \in Callers |-> FALSE]

\* ---------------------------------------------------------- the proxy pool
\* The largest number of United States rows a proxy listing holds.
MaxListing == 6
\* The largest ROTATE_PROXY_OFFSET (utils.configs is not part of the sources).
MaxOffset == 2

\* `len(self.proxy_list) < 5`
MinPool == 5

\* A proxy entry [ip, port] is a number; two equal numbers are two rows of the
\* listing with the same address and port.
ProxyIds == 1..MaxListing
NoProxy == 0

\* The filtered listing: n rows, all different, or with the second row equal
\* to the first.
Listing(n, dup) == [i \in 1..n |-> IF dup /\ i = 2 THEN 1 ELSE i]

\* The listings the source returns: no row, MinPool rows, MaxListing rows.
Listings ==
    {Listing(n, dup) : n \in {0, MinPool, MaxListing}, dup \in BOOLEAN}

Range(seq) == {seq[i] : i \in DOMAIN seq}

\* Proxy._check_time
CheckTime(last, now, off) == last = None \/ now - last >= off

\* The mutant of NeedsRotate: the pool is refreshed only when it is empty.
NeedsRotateWhenEmpty(list, last, now, off) ==
    CheckTime(last, now, off) \/ Len(list) < 1

\* `if self._check_time() or len(self.proxy_list) < 5:`
NeedsRotate(list, last, now, off) ==
    CheckTime(last, now, off) \/ Len(list) < MinPool

\* The mutant of Refreshed: the listing is added to the pool.
RefreshedMerging(list, listing) == list \o listing

\* `self.proxy_list = list(table[...].values.tolist())`
Refreshed(list, listing) == listing

\* list.remove(x): the first entry equal to x is removed.
RECURSIVE RemoveFirst(_, _)
RemoveFirst(list, x) ==
    IF list = <<>> THEN <<>>
    ELSE IF Head(list) = x THEN Tail(list)
    ELSE <<Head(list)>> \o RemoveFirst(Tail(list), x)

\* The mutant of RemoveProxy: the entry stays in the pool.
RemoveProxyNothing(list, proxy) == list

\* Proxy._remove_proxy
RemoveProxy(list, proxy) ==
    IF list # <<>> /\ proxy \in Range(list)
    THEN RemoveFirst(list, proxy)
    ELSE list

\* Proxy.__init__, with ROTATE_PROXY_OFFSET = off
InitPool(off) ==
    /\ proxy_list = <<>>
    /\ last_rotate_time = None
    /\ offset = off
    /\ rotated = FALSE
    /\ latest_listing = <<>>
    /\ evicted_since = {}

\* ------------------------------------------------- Scraper._make_request
\* Scraper.RATE_LIMIT, Scraper.RATE_SECOND_DELTA
RATE_LIMIT == 10
RATE_SECOND_DELTA == 1
\* `stop=stop_after_attempt(3)`
MaxAttempts == 3
\* _make_request is called at most MaxFetches times.
MaxFetches == 1

\* The mutant of StopRetrying: one attempt more.
StopRetryingLate(attempt) == attempt >= MaxAttempts + 1

\* tenacity's stop_after_attempt(3)
StopRetrying(attempt) == attempt >= MaxAttempts

InitFetchIdle ==
    /\ mr_pc = "idle"
    /\ mr_use_proxy = FALSE
    /\ mr_attempt = 0
    /\ mr_proxy = NoProxy
    /\ mr_result = "none"
    /\ mr_evictions = 0
    /\ mr_outcomes = <<>>
    /\ mr_admits = 0
    /\ fetches = 0

\* _make_request(url, location, use_proxy) is called: tenacity starts the
\* first attempt.
FetchStart(use_proxy) ==
    /\ mr_pc = "idle"
    /\ fetches < MaxFetches
    /\ fetches' = fetches + 1
    /\ mr_use_proxy' = use_proxy
    /\ mr_attempt' = 1
    /\ mr_proxy' = NoProxy
    /\ mr_result' = "none"
    /\ mr_evictions' = 0
    /\ mr_outcomes' = <<>>
    /\ mr_admits' = 0
    /\ mr_pc' = IF use_proxy THEN "rotate" ELSE "admit"
    /\ UNCHANGED <<clock, rlVars, poolVars>>

\* `self.proxy_obj.rotate_proxies()`: the whole of Proxy.rotate_proxies, the
\* listing being whatever the listing source returns.
RotateProxies(listing) ==
    /\ mr_pc = "rotate"
    /\ IF NeedsRotate(proxy_list, last_rotate_time, clock, offset)
       THEN /\ proxy_list' = Refreshed(proxy_list, listing)
            /\ last_rotate_time' = clock
            /\ rotated' = TRUE
            /\ latest_listing' = listing
            /\ evicted_since' = {}
       ELSE /\ rotated' = FALSE
            /\ UNCHANGED <<proxy_list, last_rotate_time, latest_listing,
                           evicted_since>>
    /\ mr_pc' = "select"
    /\ UNCHANGED <<clock, rlVars, offset, mr_use_proxy, mr_attempt, mr_proxy,
                   mr_result, mr_evictions, mr_outcomes, mr_admits, fetches>>

\* `proxy_choice = list(random.choice(self.proxy_obj.proxy_list))`
SelectProxy(i) ==
    /\ mr_pc = "select"
    /\ i \in DOMAIN proxy_list
    /\ mr_proxy' = proxy_list[i]
    /\ mr_pc' = "admit"
    /\ UNCHANGED <<clock, rlVars, poolVars, mr_use_proxy, mr_attempt, mr_result,
                   mr_evictions, mr_outcomes, mr_admits, fetches>>

\* random.choice of an empty list raises IndexError, outside the try: it is no
\* Timeout, tenacity does not retry it, and it reaches the caller.
SelectFromEmpty ==
    /\ mr_pc = "select"
    /\ proxy_list = <<>>
    /\ mr_result' = "IndexError"
    /\ mr_pc' = "done"
    /\ UNCHANGED <<clock, rlVars, poolVars, mr_use_proxy, mr_attempt, mr_proxy,
                   mr_evictions, mr_outcomes, mr_admits, fetches>>

\* `with self._rate_limiter:` __enter__ is limit(), the whole call: it returns
\* once the trimmed window has room, and has then recorded the time.
Admit ==
    /\ mr_pc = "admit"
    /\ IF LimiterOn(rate_limit, rate_second_delta)
       THEN /\ HasRoom(TrimAll(request_times, clock, rate_second_delta), rate_limit)
            /\ request_times' =
                   Append(TrimAll(request_times, clock, rate_second_delta), clock)
       ELSE UNCHANGED request_times
    /\ mr_admits' = mr_admits + 1
    /\ mr_pc' = "send"
    /\ UNCHANGED <<clock, rate_limit, rate_second_delta, rl_pc, rl_now, rl_entry,
                   rl_calls, rl_returns, rl_polled, admitted, poolVars,
                   mr_use_proxy, mr_attempt, mr_proxy, mr_result,
                   mr_evictions, mr_outcomes, fetches>>

\* The mutant of RequestAdmits: request enters a limiter of its own.
RequestAdmitsAlways(rate_limiter) == 1

\* request(url, method, ..., rate_limiter=None, ...): `if rate_limiter: with
\* rate_limiter:` admits once more, around the transport call.  The get of
\* _make_request passes no rate_limiter.
RequestAdmits(rate_limiter) == IF rate_limiter # None THEN 1 ELSE 0

\* `return get(current_url, ...)` returns a response.
SendOk ==
    /\ mr_pc = "send"
    /\ mr_admits' = mr_admits + RequestAdmits(None)
    /\ mr_outcomes' = Append(mr_outcomes, "ok")
    /\ mr_result' = "response"
    /\ mr_pc' = "done"
    /\ UNCHANGED <<clock, rlVars, poolVars, mr_use_proxy, mr_attempt, mr_proxy,
                   mr_evictions, fetches>>

\* use_proxy: get raises requests.exceptions.Timeout.  The handler removes
\* proxy_choice from the pool and raises Timeout again; tenacity then either
\* starts the next attempt or, after the last one, raises RetryError.
SendTimeoutProxy ==
    /\ mr_pc = "send"
    /\ mr_admits' = mr_admits + RequestAdmits(None)
    /\ mr_use_proxy
    /\ mr_outcomes' = Append(mr_outcomes, "timeout")
    /\ proxy_list' = RemoveProxy(proxy_list, mr_proxy)
    /\ mr_evictions' = mr_evictions + 1
    /\ evicted_since' = evicted_since \cup {mr_proxy}
    /\ IF StopRetrying(mr_attempt)
       THEN /\ mr_result' = "RetryError"
            /\ mr_pc' = "done"
            /\ UNCHANGED mr_attempt
       ELSE /\ mr_attempt' = mr_attempt + 1
            /\ mr_pc' = "rotate"
            /\ UNCHANGED mr_result
    /\ UNCHANGED <<clock, rlVars, last_rotate_time, offset, rotated,
                   latest_listing, mr_use_proxy, mr_proxy, fetches>>

\* use_proxy: get raises TooManyRedirects: `pass`, and the call returns None.
SendRedirectsProxy ==
    /\ mr_pc = "send"
    /\ mr_admits' = mr_admits + RequestAdmits(None)
    /\ mr_use_proxy
    /\ mr_outcomes' = Append(mr_outcomes, "redirects")
    /\ mr_result' = "None"
    /\ mr_pc' = "done"
    /\ UNCHANGED <<clock, rlVars, poolVars, mr_use_proxy, mr_attempt, mr_proxy,
                   mr_evictions, fetches>>

\* use_proxy: get raises another RequestException (connection refused, ...):
\* `print(e)`, and the call returns None.
SendErrorProxy ==
    /\ mr_pc = "send"
    /\ mr_admits' = mr_admits + RequestAdmits(None)
    /\ mr_use_proxy
    /\ mr_outcomes' = Append(mr_outcomes, "error")
    /\ mr_result' = "None"
    /\ mr_pc' = "done"
    /\ UNCHANGED <<clock, rlVars, poolVars, mr_use_proxy, mr_attempt, mr_proxy,
                   mr_evictions, fetches>>

\* not use_proxy: whatever get raises, `except Exception as e: print(e)`, and
\* the call returns None.
SendFailsDirect(outcome) ==
    /\ mr_pc = "send"
    /\ mr_admits' = mr_admits + RequestAdmits(None)
    /\ ~mr_use_proxy
    /\ mr_outcomes' = Append(mr_outcomes, outcome)
    /\ mr_result' = "None"
    /\ mr_pc' = "done"
    /\ UNCHANGED <<clock, rlVars, poolVars, mr_use_proxy, mr_attempt, mr_proxy,
                   mr_evictions, fetches>>

\* The caller has the result and the call's locals are gone; _make_request
\* may be called again.
FetchEnd ==
    /\ mr_pc = "done"
    /\ mr_pc' = "idle"
    /\ mr_use_proxy' = FALSE
    /\ mr_attempt' = 0
    /\ mr_proxy' = NoProxy
    /\ mr_result' = "none"
    /\ mr_evictions' = 0
    /\ mr_outcomes' = <<>>
    /\ mr_admits' = 0
    /\ UNCHANGED <<clock, rlVars, poolVars, fetches>>

\* ------------------------------------------- states before a call is made
\* async_request has not been called.
InitAsyncRequestIdle ==
    /\ ar_pc = "idle"
    /\ ar_outcomes = <<>>
    /\ ar_admits = 0
    /\ ar_result = "none"

\* `soup` when _next_page returned None, and before any page was parsed.
NoSoup == [links |-> None, page |-> None]

\* urls.txt before save_urls has written it: a line no link makes.
NoFile == <<(<<None, None, None>>)>>

\* Scraper.__init__ with depth d: an empty frontier, the cursor at page 1 with
\* nothing counted; navigate has not been called.
InitScraper(d) ==
    /\ depth = d
    /\ urls = <<>>
    /\ current_page = 1
    /\ current_counter = 0
    /\ site = "none"
    /\ nlocs = 0
    /\ cr_pc = "idle"
    /\ cr_loc = 0
    /\ cr_resp_ok = FALSE
    /\ cr_soup = NoSoup
    /\ cr_prev = 0
    /\ cr_status = "none"
    /\ nav_result = "none"
    /\ cr_requests = <<>>
    /\ cr_entry = <<>>
    /\ cr_first = <<>>
    /\ sc_pc = "idle"
    /\ saved_pages = <<>>
    /\ urls_file = NoFile

\* The module-level `s = Scraper(50)` as the other specifications see it: the
\* crawler stays as constructed.
InitCrawlIdle == InitScraper(0)

vars == <<clock, rlVars, loopVars, poolVars, fetchVars, areqVars, crawlVars>>

\* ---------------------------------------- one caller of one rate limiter
InitRL ==
    /\ clock = 0
    /\ \E limit \in Settings, delta \in Settings : InitLimiter(limit, delta)
    /\ InitLoopIdle
    /\ InitPool(MaxOffset)
    /\ InitFetchIdle
    /\ InitAsyncRequestIdle
    /\ InitCrawlIdle

NextRL ==
    \/ \E entry \in {"limit", "async_limit"} :
           LimitCall("a", entry) /\ UNCHANGED <<loopVars, poolVars, fetchVars, areqVars, crawlVars>>
    \/ LimitNow("a") /\ UNCHANGED <<loopVars, poolVars, fetchVars, areqVars, crawlVars>>
    \/ LimitTrimTest("a") /\ UNCHANGED <<loopVars, poolVars, fetchVars, areqVars, crawlVars>>
    \/ LimitTrimCmp("a") /\ UNCHANGED <<loopVars, poolVars, fetchVars, areqVars, crawlVars>>
    \/ LimitTrimPop("a") /\ UNCHANGED <<loopVars, poolVars, fetchVars, areqVars, crawlVars>>
    \/ LimitCheck("a") /\ UNCHANGED <<loopVars, poolVars, fetchVars, areqVars, crawlVars>>
    \/ LimitSleep("a") /\ UNCHANGED <<loopVars, poolVars, fetchVars, areqVars, crawlVars>>
    \/ AsyncLimitSleep("a") /\ UNCHANGED <<loopVars, poolVars, fetchVars, areqVars, crawlVars>>
    \/ LimitAppend("a") /\ UNCHANGED <<loopVars, poolVars, fetchVars, areqVars, crawlVars>>
    \/ LimitExit("a") /\ UNCHANGED <<loopVars, poolVars, fetchVars, areqVars, crawlVars>>
    \/ Tick /\ UNCHANGED <<rlVars, loopVars, poolVars, fetchVars, areqVars, crawlVars>>

SpecRL == InitRL /\ [][NextRL]_vars

\* The admissions recorded in the closed window of `delta` ending at T.
AdmittedWithin(T, delta) ==
    {i \in DOMAIN admitted : admitted[i] >= T - delta /\ admitted[i] <= T}

\* C1: with rate_limit >= 1 and rate_second_delta > 0, a single caller's
\* admissions never exceed rate_limit in any trailing window of
\* rate_second_delta, and the deque never holds more than rate_limit entries.
C1_WindowBound ==
    (rate_limit >= 1 /\ rate_second_delta > 0) =>
        /\ Len(request_times) <= rate_limit
        /\ \A T \in 0..MaxTime :
               Cardinality(AdmittedWithin(T, rate_second_delta)) <= rate_limit

\* A call that found the window full, polled, and was admitted after the clock
\* advanced, with more admissions recorded than rate_limit.
C1_Witness ==
    /\ rate_limit >= 1 /\ rate_second_delta > 0
    /\ rl_pc["a"] = "admitted"
    /\ rl_entry["a"] = "limit"
    /\ rl_polled["a"]
    /\ Len(admitted) > rate_limit
    /\ Len(request_times) = rate_limit

\* C2: with rate_limit or rate_second_delta None or 0, every call of limit()
\* and async_limit() returns at once, however many calls came before, and
\* nothing is recorded in the window.
C2_UnlimitedWhenUnset ==
    (rate_limit \in {None, 0} \/ rate_second_delta \in {None, 0}) =>
        /\ request_times = <<>>
        /\ admitted = <<>>
        /\ rl_pc["a"] \in {"idle", "admitted"}
        /\ rl_returns["a"] = rl_calls["a"]
        /\ ~rl_polled["a"]

\* The third call of an unset limiter has returned, through async_limit().
C2_Witness ==
    /\ rate_limit \in {None, 0} \/ rate_second_delta \in {None, 0}
    /\ rl_entry["a"] = "async_limit"
    /\ rl_pc["a"] = "admitted"
    /\ rl_returns["a"] >= 3
    /\ clock > 0

\* ------------------------- coroutines of one event loop, one rate limiter
\* Each coroutine runs AsyncHTTPSession._request on a session that was given
\* the limiter:
\*     async with self.rate_limiter:
\*         return await super()._request(method, url, **kwargs)
\* One thread runs the event loop: a coroutine keeps the thread until it
\* awaits something that suspends.

\* A coroutine the loop could run: a task not yet started, or one whose
\* transport call has its response.
Ready(c) ==
    \/ rl_pc[c] = "idle" /\ rl_calls[c] < MaxCalls
    \/ rl_pc[c] = "io_done"

\* Inside the polling loop of async_limit().
InLimit(c) == rl_pc[c] \in {"now", "trim", "cmp", "pop", "check", "sleep", "append"}

\* The event loop, with no coroutine running, runs a ready one.  Whoever was
\* polling in async_limit() at that moment has seen another coroutine run.
LoopRun(c) ==
    /\ loop_running = NoCaller
    /\ Ready(c)
    /\ loop_running' = c
    /\ co_other_ran' = [d \in Callers |->
                          co_other_ran[d] \/ (d # c /\ InLimit(d) /\ rl_polled[d])]
    /\ UNCHANGED <<clock, rlVars, co_other_ready>>

\* `async with self.rate_limiter:` -> __aenter__ -> `await self.async_limit()`:
\* awaiting a coroutine runs it on the spot.
CoEnterLimit(c) ==
    /\ loop_running = c
    /\ LimitCall(c, "async_limit")
    /\ co_other_ready' = SetAt(co_other_ready, c, FALSE)
    /\ co_other_ran' = SetAt(co_other_ran, c, FALSE)
    /\ UNCHANGED loop_running

\* A step of async_limit() that is not the sleep.
CoLimitStep(c, step) ==
    /\ loop_running = c
    /\ step
    /\ UNCHANGED loopVars

\* The polling retry of async_limit(): the loop keeps running this coroutine.
CoPoll(c) ==
    /\ loop_running = c
    /\ AsyncLimitSleep(c)
    /\ co_other_ready' = SetAt(co_other_ready, c,
                               co_other_ready[c] \/ \E d \in Callers \ {c} : Ready(d))
    /\ UNCHANGED <<loop_running, co_other_ran>>

\* `await super()._request(...)`: the coroutine suspends on the network and
\* the loop is free.
CoAwaitTransport(c) ==
    /\ loop_running = c
    /\ rl_pc[c] = "admitted"
    /\ rl_pc' = SetAt(rl_pc, c, "io")
    /\ loop_running' = NoCaller
    /\ UNCHANGED <<clock, rate_limit, rate_second_delta, request_times, rl_now,
                   rl_entry, rl_calls, rl_returns, rl_polled, admitted,
                   co_other_ready, co_other_ran>>

\* The response of a suspended transport call arrives.
IoComplete(c) ==
    /\ rl_pc[c] = "io"
    /\ rl_pc' = SetAt(rl_pc, c, "io_done")
    /\ UNCHANGED <<clock, rate_limit, rate_second_delta, request_times, rl_now,
                   rl_entry, rl_calls, rl_returns, rl_polled, admitted, loopVars>>

\* The resumed coroutine leaves the `async with` (__aexit__ does nothing) and
\* _request returns.
CoReturn(c) ==
    /\ loop_running = c
    /\ rl_pc[c] = "io_done"
    /\ rl_pc' = SetAt(rl_pc, c, "idle")
    /\ loop_running' = NoCaller
    /\ UNCHANGED <<clock, rate_limit, rate_second_delta, request_times, rl_now,
                   rl_entry, rl_calls, rl_returns, rl_polled, admitted,
                   co_other_ready, co_other_ran>>

InitAsync ==
    /\ clock = 0
    /\ \E limit \in Settings, delta \in Settings : InitLimiter(limit, delta)
    /\ InitLoopIdle
    /\ InitPool(MaxOffset)
    /\ InitFetchIdle
    /\ InitAsyncRequestIdle
    /\ InitCrawlIdle

NextAsync ==
    \/ (\E c \in Callers : LoopRun(c)) /\ UNCHANGED <<poolVars, fetchVars, areqVars, crawlVars>>
    \/ (\E c \in Callers : CoEnterLimit(c)) /\ UNCHANGED <<poolVars, fetchVars, areqVars, crawlVars>>
    \/ (\E c \in Callers : CoLimitStep(c, LimitNow(c))) /\ UNCHANGED <<poolVars, fetchVars, areqVars, crawlVars>>
    \/ (\E c \in Callers : CoLimitStep(c, LimitTrimTest(c))) /\ UNCHANGED <<poolVars, fetchVars, areqVars, crawlVars>>
    \/ (\E c \in Callers : CoLimitStep(c, LimitTrimCmp(c))) /\ UNCHANGED <<poolVars, fetchVars, areqVars, crawlVars>>
    \/ (\E c \in Callers : CoLimitStep(c, LimitTrimPop(c))) /\ UNCHANGED <<poolVars, fetchVars, areqVars, crawlVars>>
    \/ (\E c \in Callers : CoLimitStep(c, LimitCheck(c))) /\ UNCHANGED <<poolVars, fetchVars, areqVars, crawlVars>>
    \/ (\E c \in Callers : CoPoll(c)) /\ UNCHANGED <<poolVars, fetchVars, areqVars, crawlVars>>
    \/ (\E c \in Callers : CoLimitStep(c, LimitAppend(c))) /\ UNCHANGED <<poolVars, fetchVars, areqVars, crawlVars>>
    \/ (\E c \in Callers : CoAwaitTransport(c)) /\ UNCHANGED <<poolVars, fetchVars, areqVars, crawlVars>>
    \/ (\E c \in Callers : IoComplete(c)) /\ UNCHANGED <<poolVars, fetchVars, areqVars, crawlVars>>
    \/ (\E c \in Callers : CoReturn(c)) /\ UNCHANGED <<poolVars, fetchVars, areqVars, crawlVars>>
    \/ Tick /\ UNCHANGED <<rlVars, loopVars, poolVars, fetchVars, areqVars, crawlVars>>

SpecAsync == InitAsync /\ [][NextAsync]_vars

\* C3: a coroutine that polled in async_limit() because the window was full,
\* while another coroutine was ready, has seen that coroutine run by the time
\* async_limit() returns (each polling retry yields to the event loop).
C3_PollingYields ==
    \A c \in Callers :
        (/\ rl_pc[c] = "admitted"
         /\ rl_entry[c] = "async_limit"
         /\ rl_polled[c]
         /\ co_other_ready[c]) => co_other_ran[c]

\* ------------------------------------- a Scraper calling _make_request
\* Scraper.__init__: an empty pool and a limiter of RATE_LIMIT requests per
\* RATE_SECOND_DELTA.
InitFetch ==
    /\ clock = 0
    /\ InitLimiter(RATE_LIMIT, RATE_SECOND_DELTA)
    /\ InitLoopIdle
    /\ \E off \in 1..MaxOffset : InitPool(off)
    /\ InitFetchIdle
    /\ InitAsyncRequestIdle
    /\ InitCrawlIdle

\* time.time() advances.  _make_request reads the clock in rotate_proxies and
\* in limit() only, so time that passes elsewhere is time that passes before
\* the next of these two.
TickFetch ==
    /\ mr_pc \in {"rotate", "admit"}
    /\ Tick
    /\ UNCHANGED <<rlVars, loopVars, poolVars, fetchVars, areqVars, crawlVars>>

NextFetch ==
    \/ (\E use_proxy \in BOOLEAN : FetchStart(use_proxy)) /\ UNCHANGED <<loopVars, areqVars, crawlVars>>
    \/ (\E listing \in Listings : RotateProxies(listing)) /\ UNCHANGED <<loopVars, areqVars, crawlVars>>
    \/ (\E i \in 1..MaxListing : SelectProxy(i)) /\ UNCHANGED <<loopVars, areqVars, crawlVars>>
    \/ SelectFromEmpty /\ UNCHANGED <<loopVars, areqVars, crawlVars>>
    \/ Admit /\ UNCHANGED <<loopVars, areqVars, crawlVars>>
    \/ SendOk /\ UNCHANGED <<loopVars, areqVars, crawlVars>>
    \/ SendTimeoutProxy /\ UNCHANGED <<loopVars, areqVars, crawlVars>>
    \/ SendRedirectsProxy /\ UNCHANGED <<loopVars, areqVars, crawlVars>>
    \/ SendErrorProxy /\ UNCHANGED <<loopVars, areqVars, crawlVars>>
    \/ (\E outcome \in {"timeout", "redirects", "error"} : SendFailsDirect(outcome))
           /\ UNCHANGED <<loopVars, areqVars, crawlVars>>
    \/ FetchEnd /\ UNCHANGED <<loopVars, areqVars, crawlVars>>
    \/ TickFetch

SpecFetch == InitFetch /\ [][NextFetch]_vars

\* The number of entries of the pool equal to x.
Count(list, x) == Cardinality({i \in DOMAIN list : list[i] = x})

Last(seq) == seq[Len(seq)]

\* The attempts of the call under way that ended in a timeout.
Timeouts == {i \in DOMAIN mr_outcomes : mr_outcomes[i] = "timeout"}

\* C4: rotate_proxies() replaces the pool by the fresh listing, and sets
\* last_rotate_time to the current time, if and only if the pool has fewer than
\* 5 entries, or no refresh has happened yet, or at least `offset` seconds have
\* passed since the last refresh; otherwise proxy_list and last_rotate_time are
\* left as they were.
C4_RotateIffNeeded ==
    [][(mr_pc = "rotate" /\ mr_pc' = "select") =>
          IF \/ Len(proxy_list) < 5
             \/ last_rotate_time = None
             \/ clock - last_rotate_time >= offset
          THEN /\ rotated'
               /\ proxy_list' = latest_listing'
               /\ last_rotate_time' = clock'
          ELSE /\ ~rotated'
               /\ proxy_list' = proxy_list
               /\ last_rotate_time' = last_rotate_time]_vars

\* A second attempt whose rotate_proxies() left a pool of 5 or more alone, some
\* time, but less than `offset`, after the refresh.
C4_Witness ==
    /\ mr_pc = "select"
    /\ mr_attempt = 2
    /\ ~rotated
    /\ Len(proxy_list) >= 5
    /\ clock > last_rotate_time
    /\ proxy_list # latest_listing

\* C5: every proxy selected for a request is an entry of the most recent
\* refresh's listing and has not been evicted since that refresh.
C5_SelectedFromLatestRefresh ==
    (mr_pc = "admit" /\ mr_use_proxy) =>
        /\ mr_proxy \in Range(latest_listing)
        /\ mr_proxy \notin evicted_since

\* C6: remove_bad_proxy is idempotent on every pool and for every entry:
\* evicting twice leaves what evicting once leaves, evicting an absent entry
\* changes nothing, and an evicted entry is no longer in the pool -- also
\* right after _make_request has evicted the proxy of a timed-out attempt.
C6_EvictIdempotent ==
    /\ \A p \in ProxyIds :
          LET once == RemoveProxy(proxy_list, p)
          IN  /\ RemoveProxy(once, p) = once
              /\ p \notin Range(once)
              /\ (p \notin Range(proxy_list) => once = proxy_list)
    /\ (mr_pc \in {"rotate", "done"} /\ mr_outcomes # <<>>
          /\ Last(mr_outcomes) = "timeout" /\ mr_use_proxy)
       => mr_proxy \notin Range(proxy_list)

\* C7: when the pool is still empty after the refresh attempt, the proxied
\* fetch ends with the dedicated empty-pool error, with no request sent and no
\* admission taken in that attempt.
C7_EmptyPoolError ==
    (mr_pc = "done" /\ mr_use_proxy /\ proxy_list = <<>> /\ mr_admits < mr_attempt) =>
        /\ mr_result = "EmptyPoolError"
        /\ Len(mr_outcomes) < mr_attempt

\* C8: a proxied fetch makes at most 3 attempts; an attempt is followed by
\* another one only when it timed out and fewer than 3 were made; each timeout
\* evicts a proxy; and after 3 timeouts the fetch ends with a failure (tenacity's
\* RetryError), never with a response or None.
C8_AtMostThreeAttempts ==
    mr_use_proxy =>
        /\ mr_attempt <= 3
        /\ Len(mr_outcomes) <= 3
        /\ \A i \in 1..(Len(mr_outcomes) - 1) : mr_outcomes[i] = "timeout"
        /\ mr_evictions = Cardinality(Timeouts)
        /\ (mr_pc \in {"rotate", "select", "admit", "send"}
              => Len(mr_outcomes) = mr_attempt - 1)
        /\ (mr_pc = "done" /\ Cardinality(Timeouts) = 3) => mr_result = "RetryError"
        /\ (mr_result = "RetryError") => Cardinality(Timeouts) = 3

\* Three attempts timed out, three proxies were evicted, the fetch failed.
C8_Witness ==
    /\ mr_pc = "done"
    /\ mr_use_proxy
    /\ mr_result = "RetryError"
    /\ mr_evictions = 3
    /\ mr_outcomes = <<"timeout", "timeout", "timeout">>

\* C9: in a proxied fetch, an attempt that times out removes one entry equal to
\* the proxy it used from the pool and nothing else; the attempt that succeeds
\* removes nothing, returns the response, and has been preceded by exactly as
\* many evictions as attempts timed out (0, 1 or 2).
C9_EvictionsMatchTimeouts ==
    [][(mr_pc = "send" /\ mr_use_proxy /\ Len(mr_outcomes') = Len(mr_outcomes) + 1) =>
          /\ Last(mr_outcomes') = "timeout" =>
                /\ mr_evictions' = mr_evictions + 1
                /\ Count(proxy_list', mr_proxy) = Count(proxy_list, mr_proxy) - 1
                /\ \A q \in ProxyIds \ {mr_proxy} :
                      Count(proxy_list', q) = Count(proxy_list, q)
          /\ Last(mr_outcomes') = "ok" =>
                /\ mr_result' = "response"
                /\ mr_pc' = "done"
                /\ proxy_list' = proxy_list
                /\ mr_evictions' = mr_evictions
                /\ mr_evictions' = Len(mr_outcomes)
                /\ mr_evictions' \in 0..2
                /\ \A i \in DOMAIN mr_outcomes : mr_outcomes[i] = "timeout"]_vars

\* Two attempts timed out, the third one returned the response, two proxies
\* were evicted.
C9_Witness ==
    /\ mr_pc = "done"
    /\ mr_use_proxy
    /\ mr_result = "response"
    /\ mr_evictions = 2
    /\ mr_outcomes = <<"timeout", "timeout", "ok">>

\* C10: an attempt that fails with a transport exception other than a timeout
\* or excessive redirects ends the fetch with an error for the caller, never
\* with a normal return of None.
C10_FatalErrorSurfaced ==
    (mr_pc = "done" /\ mr_outcomes # <<>> /\ Last(mr_outcomes) = "error") =>
        mr_result \notin {"None", "response"}

\* C11: with use_proxy false, _make_request classifies outcomes as the proxied
\* path does: an attempt that timed out is retried under a fresh admission, so
\* a fetch whose last attempt timed out has made all 3 attempts under 3
\* admissions and ends with the retry failure, not with a return of None.
C11_DirectTimeoutRetried ==
    (mr_pc = "done" /\ ~mr_use_proxy /\ mr_outcomes # <<>>
        /\ Last(mr_outcomes) = "timeout") =>
        /\ Len(mr_outcomes) = 3
        /\ mr_admits = 3
        /\ mr_result = "RetryError"

\* C12: every physical attempt, the retries included, is preceded by an
\* admission of its own: while an attempt is in flight the call has taken one
\* admission more than attempts have ended, and between attempts (and at the
\* end) exactly as many as attempts have ended.
C12_OneAdmissionPerAttempt ==
    /\ mr_pc = "send" => mr_admits = Len(mr_outcomes) + 1
    /\ mr_pc \in {"rotate", "select", "admit", "done"} =>
           mr_admits = Len(mr_outcomes)
    /\ mr_pc = "idle" => mr_admits = 0

\* The third attempt of a proxied fetch is in flight, after two timeouts, under
\* the third admission.
C12_Witness ==
    /\ mr_pc = "send"
    /\ mr_use_proxy
    /\ mr_outcomes = <<"timeout", "timeout">>
    /\ mr_admits = 3

\* ----------------------------- async_request beside Scraper._make_request
\* The cooperative path is given the transport outcomes the blocking path met:
\* its k-th attempt meets the outcome of the blocking path's k-th attempt.

\* `await async_request(http_session, url, method)` is called, once the
\* blocking call has ended and has sent at least one attempt.
AsyncRequestStart ==
    /\ ar_pc = "idle"
    /\ mr_pc = "done"
    /\ mr_outcomes # <<>>
    /\ ar_pc' = "admit"
    /\ UNCHANGED <<ar_outcomes, ar_admits, ar_result>>

\* AsyncHTTPSession._request: `async with self.rate_limiter:` __aenter__ is
\* async_limit(), the whole call, on the limiter the session was given.
AsyncRequestAdmit ==
    /\ ar_pc = "admit"
    /\ IF LimiterOn(rate_limit, rate_second_delta)
       THEN /\ HasRoom(TrimAll(request_times, clock, rate_second_delta), rate_limit)
            /\ request_times' =
                   Append(TrimAll(request_times, clock, rate_second_delta), clock)
       ELSE UNCHANGED request_times
    /\ ar_admits' = ar_admits + 1
    /\ ar_pc' = "send"
    /\ UNCHANGED <<rate_limit, rate_second_delta, rl_pc, rl_now, rl_entry,
                   rl_calls, rl_returns, rl_polled, admitted, ar_outcomes,
                   ar_result>>

\* The transport call returns: the HTTPResponse is filled from it and returned.
AsyncRequestOk ==
    /\ ar_pc = "send"
    /\ mr_outcomes[Len(ar_outcomes) + 1] = "ok"
    /\ ar_outcomes' = Append(ar_outcomes, "ok")
    /\ ar_result' = "response"
    /\ ar_pc' = "done"
    /\ UNCHANGED <<rlVars, ar_admits>>

\* The transport call raises, whatever it raises: `except Exception as e:` logs
\* it, and the HTTPResponse built before the try, with ok=False, is returned.
AsyncRequestFails ==
    /\ ar_pc = "send"
    /\ mr_outcomes[Len(ar_outcomes) + 1] # "ok"
    /\ ar_outcomes' = Append(ar_outcomes, mr_outcomes[Len(ar_outcomes) + 1])
    /\ ar_result' = "response_not_ok"
    /\ ar_pc' = "done"
    /\ UNCHANGED <<rlVars, ar_admits>>

InitEquiv == InitFetch

NextEquiv ==
    \/ (\E use_proxy \in BOOLEAN : FetchStart(use_proxy))
           /\ UNCHANGED <<loopVars, areqVars, crawlVars>>
    \/ (\E listing \in Listings : RotateProxies(listing))
           /\ UNCHANGED <<loopVars, areqVars, crawlVars>>
    \/ (\E i \in 1..MaxListing : SelectProxy(i))
           /\ UNCHANGED <<loopVars, areqVars, crawlVars>>
    \/ SelectFromEmpty /\ UNCHANGED <<loopVars, areqVars, crawlVars>>
    \/ Admit /\ UNCHANGED <<loopVars, areqVars, crawlVars>>
    \/ SendOk /\ UNCHANGED <<loopVars, areqVars, crawlVars>>
    \/ SendTimeoutProxy /\ UNCHANGED <<loopVars, areqVars, crawlVars>>
    \/ SendRedirectsProxy /\ UNCHANGED <<loopVars, areqVars, crawlVars>>
    \/ SendErrorProxy /\ UNCHANGED <<loopVars, areqVars, crawlVars>>
    \/ (\E outcome \in {"timeout", "redirects", "error"} : SendFailsDirect(outcome))
           /\ UNCHANGED <<loopVars, areqVars, crawlVars>>
    \/ TickFetch
    \/ AsyncRequestStart
           /\ UNCHANGED <<clock, rlVars, loopVars, poolVars, fetchVars, crawlVars>>
    \/ AsyncRequestAdmit
           /\ UNCHANGED <<clock, loopVars, poolVars, fetchVars, crawlVars>>
    \/ AsyncRequestOk
           /\ UNCHANGED <<clock, loopVars, poolVars, fetchVars, crawlVars>>
    \/ AsyncRequestFails
           /\ UNCHANGED <<clock, loopVars, poolVars, fetchVars, crawlVars>>

SpecEquiv == InitEquiv /\ [][NextEquiv]_vars

\* C16: the blocking path and the cooperative path, given the same transport
\* outcomes, make the same number of attempts under the same number of
\* admissions and end alike: both with a response, or both with a failure.
C16_PathsEquivalent ==
    (mr_pc = "done" /\ ar_pc = "done") =>
        /\ Len(ar_outcomes) = Len(mr_outcomes)
        /\ ar_admits = mr_admits
        /\ (ar_result = "response") <=> (mr_result = "response")

\* ------------------------------------------------ the paginated crawl
\* A Scraper is constructed with a depth of at most MaxDepth.
MaxDepth == 5
\* A result page holds at most MaxLinks links to detail pages.
MaxLinks == 3
\* navigate is called with at most MaxLocations locations.
MaxLocations == 3

\* navigate's site: BASE_URL_MAP's "realtor.com", or any other one.
Sites == {"realtor.com", "other"}

\* What a fetched page holds: its links whose href starts with
\* "/realestateandhomes-detail/", and whether it has the element with id
\* "error-404".
Pages == [links : 0..MaxLinks, notfound : BOOLEAN]

\* The un-suffixed URL `url.format(location)`, as a page number no "/pg-" takes.
Unsuffixed == 0

\* The k-th matching link of page `page` of location `loc`.
Link(loc, page, k) == <<loc, page, k>>

\* _collect_urls: the number of links appended.  The loop breaks as soon as
\* current_counter >= depth, and counts each link it appends.
Collected(counter, d, links) ==
    IF counter >= d THEN 0
    ELSE IF links <= d - counter THEN links ELSE d - counter

\* The mutant of BreaksLoop: None is taken for False.
BreaksLoopOnFalsy(request_status) == request_status \in {"False", "None"}

\* navigate: `if request_status == False: break`
BreaksLoop(request_status) == request_status = "False"

\* `navigate(site, url, locations)` is called.
Navigate(s, n) ==
    /\ cr_pc = "idle"
    /\ site' = s
    /\ nlocs' = n
    /\ cr_loc' = 0
    /\ cr_pc' = "for"
    /\ UNCHANGED <<depth, urls, current_page, current_counter, cr_resp_ok,
                   cr_soup, cr_prev, cr_status, nav_result, cr_requests,
                   cr_entry, cr_first>>

\* `for location in locations:` takes the next location and calls _request.
NavigateNextLocation ==
    /\ cr_pc = "for"
    /\ ~BreaksLoop(cr_status)
    /\ cr_loc < nlocs
    /\ cr_loc' = cr_loc + 1
    /\ cr_entry' = Append(cr_entry, <<current_counter, current_page>>)
    /\ cr_pc' = "request"
    /\ UNCHANGED <<site, nlocs, depth, urls, current_page, current_counter,
                   cr_resp_ok, cr_soup, cr_prev, cr_status, nav_result,
                   cr_requests, cr_first>>

\* The loop is over, by `break` or at the end of the list: navigate prints the
\* count and returns, without a return statement.
NavigateReturn ==
    /\ cr_pc = "for"
    /\ BreaksLoop(cr_status) \/ cr_loc = nlocs
    /\ nav_result' = "None"
    /\ cr_pc' = "returned"
    /\ UNCHANGED <<site, nlocs, depth, urls, current_page, current_counter,
                   cr_loc, cr_resp_ok, cr_soup, cr_prev, cr_status,
                   cr_requests, cr_entry, cr_first>>

\* _request: `resp = self._make_request(url, location, use_proxy=True)` returns
\* a response, which is parsed; previous_url_count is taken.  With another
\* site than realtor.com the loop body is `return True` alone.
RequestFirstPage(page, ok) ==
    /\ cr_pc = "request"
    /\ cr_requests' = Append(cr_requests, <<cr_loc, Unsuffixed>>)
    /\ cr_first' = Append(cr_first, page.links)
    /\ cr_prev' = Len(urls)
    /\ IF site = "realtor.com"
       THEN /\ cr_resp_ok' = ok
            /\ cr_soup' = [links |-> page.links, page |-> Unsuffixed]
            /\ cr_pc' = "collect"
            /\ UNCHANGED cr_status
       ELSE /\ cr_resp_ok' = FALSE
            /\ cr_soup' = NoSoup
            /\ cr_status' = "True"
            /\ cr_pc' = "for"
    /\ UNCHANGED <<site, nlocs, depth, urls, current_page, current_counter,
                   cr_loc, nav_result, cr_entry>>

\* A _make_request of _request or _next_page raises (RetryError, IndexError),
\* or returns None and `resp.text` raises AttributeError: nothing catches it,
\* and navigate ends with the exception.
FetchRaises ==
    /\ cr_pc \in {"request", "next_page"}
    /\ cr_requests' =
           Append(cr_requests,
                  <<cr_loc, IF cr_pc = "request" THEN Unsuffixed ELSE current_page>>)
    /\ nav_result' = "raised"
    /\ cr_pc' = "raised"
    /\ UNCHANGED <<site, nlocs, depth, urls, current_page, current_counter,
                   cr_loc, cr_resp_ok, cr_soup, cr_prev, cr_status, cr_entry,
                   cr_first>>

\* The mutant of Appended: the new entries are put in front.
AppendedInFront(list, new) == new \o list

\* `self.urls.append(...)`, for each of the links collected.
Appended(list, new) == list \o new

\* `self._collect_urls(soup, site)`, the whole loop over the page's links.
CollectUrls ==
    /\ cr_pc = "collect"
    /\ LET n == Collected(current_counter, depth, cr_soup.links)
       IN  /\ urls' = Appended(urls, [k \in 1..n |-> Link(cr_loc, cr_soup.page, k)])
           /\ current_counter' = current_counter + n
    /\ cr_pc' = "next_page"
    /\ UNCHANGED <<site, nlocs, depth, current_page, cr_loc, cr_resp_ok, cr_soup,
                   cr_prev, cr_status, nav_result, cr_requests, cr_entry,
                   cr_first>>

\* `soup = self._next_page(site, location, url)`: the URL is built from
\* current_page, the page is fetched and parsed, current_page is incremented,
\* and the page is returned unless it has the error-404 element.
NextPage(page) ==
    /\ cr_pc = "next_page"
    /\ cr_requests' = Append(cr_requests, <<cr_loc, current_page>>)
    /\ current_page' = current_page + 1
    /\ cr_soup' = IF page.notfound THEN NoSoup
                  ELSE [links |-> page.links, page |-> current_page]
    /\ cr_pc' = "test"
    /\ UNCHANGED <<site, nlocs, depth, urls, current_counter, cr_loc, cr_resp_ok,
                   cr_prev, cr_status, nav_result, cr_entry, cr_first>>

\* The test of line 60 holds: previous_url_count is updated, and the `return
\* True` that ends the body of `while True:` returns.
RequestContinues ==
    /\ cr_pc = "test"
    /\ current_counter < depth /\ cr_resp_ok /\ Len(urls) > cr_prev
    /\ cr_prev' = Len(urls)
    /\ cr_status' = "True"
    /\ cr_soup' = NoSoup
    /\ cr_pc' = "for"
    /\ UNCHANGED <<site, nlocs, depth, urls, current_page, current_counter,
                   cr_loc, cr_resp_ok, nav_result, cr_requests, cr_entry,
                   cr_first>>

\* The test fails and the frontier has not grown: "something went wrong",
\* `return False`.
RequestStalls ==
    /\ cr_pc = "test"
    /\ ~(current_counter < depth /\ cr_resp_ok /\ Len(urls) > cr_prev)
    /\ Len(urls) <= cr_prev
    /\ cr_status' = "False"
    /\ cr_soup' = NoSoup
    /\ cr_pc' = "for"
    /\ UNCHANGED <<site, nlocs, depth, urls, current_page, current_counter,
                   cr_loc, cr_resp_ok, cr_prev, nav_result, cr_requests,
                   cr_entry, cr_first>>

\* The test fails and the frontier has grown: "depth limite reached", the
\* cursor is reset, `break`, and _request ends without a return statement.
RequestDepthReached ==
    /\ cr_pc = "test"
    /\ ~(current_counter < depth /\ cr_resp_ok /\ Len(urls) > cr_prev)
    /\ Len(urls) > cr_prev
    /\ current_counter' = 0
    /\ current_page' = 2
    /\ cr_status' = "None"
    /\ cr_soup' = NoSoup
    /\ cr_pc' = "for"
    /\ UNCHANGED <<site, nlocs, depth, urls, cr_loc, cr_resp_ok, cr_prev,
                   nav_result, cr_requests, cr_entry, cr_first>>

InitCrawl ==
    /\ clock = 0
    /\ InitLimiter(RATE_LIMIT, RATE_SECOND_DELTA)
    /\ InitLoopIdle
    /\ InitPool(MaxOffset)
    /\ InitFetchIdle
    /\ InitAsyncRequestIdle
    /\ \E d \in 0..MaxDepth : InitScraper(d)

\* What no step of the crawl changes: _make_request is taken by its result.
restCrawl == <<clock, rlVars, loopVars, poolVars, fetchVars, areqVars, scrapeVars>>

\* navigate has returned to its caller, which has not called scrape or is
\* back from it: the caller goes on to scrape() or save_urls(), as the scripts
\* at the end of scraper.py do.
AfterNavigate == cr_pc = "returned" /\ sc_pc = "idle"

\* _save_pages(pages): one file per page, named by its index, written over
\* whatever file of that name there was.
SavedOver(files, pages) ==
    [i \in 1..(IF Len(files) > Len(pages) THEN Len(files) ELSE Len(pages)) |->
        IF i <= Len(pages) THEN pages[i] ELSE files[i]]

\* `scrape()`, every fetch returning a response: each entry of urls is fetched
\* through _make_request, in order, the text of its response is appended to
\* `pages`, and the pages are saved.
Scrape ==
    /\ AfterNavigate
    /\ saved_pages' = SavedOver(saved_pages, urls)
    /\ UNCHANGED <<sc_pc, urls_file>>

\* `scrape()` where a _make_request raises, or returns None and `resp.text`
\* raises: scrape ends with the exception, and no page is saved.
ScrapeRaises ==
    /\ AfterNavigate
    /\ urls # <<>>
    /\ sc_pc' = "raised"
    /\ UNCHANGED <<saved_pages, urls_file>>

\* `save_urls()`: urls.txt is written anew, one line per entry of urls.
SaveUrls ==
    /\ AfterNavigate
    /\ urls_file' = urls
    /\ UNCHANGED <<sc_pc, saved_pages>>

\* What no step of scrape or save_urls changes.
restScrape == <<clock, rlVars, loopVars, poolVars, fetchVars, areqVars, navVars>>

NextCrawl ==
    \/ (\E s \in Sites, n \in 0..MaxLocations : Navigate(s, n)) /\ UNCHANGED restCrawl
    \/ NavigateNextLocation /\ UNCHANGED restCrawl
    \/ NavigateReturn /\ UNCHANGED restCrawl
    \/ (\E page \in Pages, ok \in BOOLEAN : RequestFirstPage(page, ok)) /\ UNCHANGED restCrawl
    \/ FetchRaises /\ UNCHANGED restCrawl
    \/ CollectUrls /\ UNCHANGED restCrawl
    \/ (\E page \in Pages : NextPage(page)) /\ UNCHANGED restCrawl
    \/ RequestContinues /\ UNCHANGED restCrawl
    \/ RequestStalls /\ UNCHANGED restCrawl
    \/ RequestDepthReached /\ UNCHANGED restCrawl
    \/ Scrape /\ UNCHANGED restScrape
    \/ ScrapeRaises /\ UNCHANGED restScrape
    \/ SaveUrls /\ UNCHANGED restScrape

SpecCrawl == InitCrawl /\ [][NextCrawl]_vars

\* The pages requested for location `loc`, in the order of the requests.
RequestsOf(loc) ==
    LET OfLoc(r) == r[1] = loc
        reqs == SelectSeq(cr_requests, OfLoc)
    IN  [i \in DOMAIN reqs |-> reqs[i][2]]

\* _request has returned for the location cr_loc, and navigate has not yet
\* looked at what it returned.
LocationEnded == cr_pc = "for" /\ cr_loc >= 1

\* C13: on a fresh Scraper with depth N >= 1 whose first page holds M > N
\* matching links, the first location appends exactly the first N of them,
\* resets the cursor (current_counter = 0, current_page = 2), ends without
\* being reported as a stall, and has fetched no page beyond the first one.
C13_BudgetCutsFirstPage ==
    (LocationEnded /\ cr_loc = 1 /\ site = "realtor.com" /\ depth >= 1
        /\ cr_first[1] > depth) =>
        /\ urls = [k \in 1..depth |-> Link(1, Unsuffixed, k)]
        /\ current_counter = 0
        /\ current_page = 2
        /\ cr_status # "False"
        /\ RequestsOf(1) = <<Unsuffixed>>

\* C14: when a location stalls (a page adds no new URL while the budget is
\* not reached), what navigate gives its caller differs from what a run
\* without a stall gives, which is None.
C14_StallReported ==
    cr_pc = "returned" =>
        /\ (cr_status = "False" /\ current_counter < depth) => nav_result # "None"
        /\ cr_status # "False" => nav_result = "None"

\* C15: within one location the crawl goes on page by page and leaves the
\* location only when the budget is reached (cursor reset) or a page added
\* nothing; so with depth 5 and a first page of 3 links, a first location that
\* did not stall ends with 5 entries in the frontier.
C15_LoopsUntilBudgetOrStall ==
    (LocationEnded /\ site = "realtor.com") =>
        /\ cr_status \in {"None", "False"}
        /\ cr_status = "None" => (current_counter = 0 /\ current_page = 2)
        /\ (cr_loc = 1 /\ depth = 5 /\ cr_first[1] = 3 /\ cr_status # "False")
              => Len(urls) = 5

\* The number of first-page requests sent for location `loc`.
FirstPageRequests(loc) ==
    Cardinality({i \in DOMAIN cr_requests :
                    cr_requests[i] = <<loc, Unsuffixed>>})

C18_BudgetExitFirst ==
    (LocationEnded /\ site = "realtor.com") =>
        /\ cr_status = "False" => current_counter < depth
        /\ cr_status = "None" => (current_counter = 0 /\ current_page = 2)

\* C19: the pages requested for one location are the un-suffixed URL, then
\* /pg-2, /pg-3, ...: the k-th advance requests page k + 1, so no page is
\* requested twice and /pg-1 never.
C19_PagesInSequence ==
    \A loc \in 1..MaxLocations :
        \A i \in DOMAIN RequestsOf(loc) :
            RequestsOf(loc)[i] = IF i = 1 THEN Unsuffixed ELSE i

\* C20: navigate starts every location with current_counter = 0 and
\* current_page 1 or 2.
C20_StartState ==
    \A i \in DOMAIN cr_entry :
        /\ cr_entry[i][1] = 0
        /\ cr_entry[i][2] \in {1, 2}

\* `a` is a prefix of `b`.
IsPrefix(a, b) == Len(a) <= Len(b) /\ \A i \in DOMAIN a : a[i] = b[i]

\* C21: the frontier is append-only: every step of navigate, _request,
\* _collect_urls, _next_page, scrape and save_urls leaves the frontier a prefix
\* of what it is afterwards (so each state's frontier is a prefix of every
\* later one), and the steps of scrape and save_urls leave it as it is.
C21_FrontierAppendOnly ==
    [][/\ IsPrefix(urls, urls')
       /\ (sc_pc' # sc_pc \/ urls_file' # urls_file
              \/ saved_pages' # saved_pages) => urls' = urls]_vars

\* After a navigate over two locations that both added links, scrape has
\* fetched and saved every entry and save_urls has written the frontier.
C21_Witness ==
    /\ cr_pc = "returned"
    /\ sc_pc = "idle"
    /\ cr_loc = 2
    /\ Len(urls) >= 3
    /\ \E i \in DOMAIN urls : urls[i][1] = 1
    /\ \E i \in DOMAIN urls : urls[i][1] = 2
    /\ saved_pages = urls
    /\ urls_file = urls

\* The retained timestamps are ordered oldest first.
OldestFirst ==
    \A i, j \in DOMAIN request_times :
        i < j => request_times[i] <= request_times[j]

\* C22: in every reachable state of a limiter with both settings set, also
\* between calls while the clock advances, every retained timestamp is within
\* rate_second_delta of the current time, and the retained timestamps are
\* ordered oldest first.
C22_RetainedFreshAlways ==
    (rate_limit >= 1 /\ rate_second_delta > 0) =>
        /\ \A i \in DOMAIN request_times :
               clock - request_times[i] <= rate_second_delta
        /\ OldestFirst

\* C22 as amended: once a call of limit() or async_limit() has run its trim
\* loop to the end (at the length test, at the sleep and at the append), every
\* retained timestamp is within rate_second_delta of the `now` the call read;
\* in every state the retained timestamps are ordered oldest first.
C22_RetainedFreshAfterTrim ==
    (rate_limit >= 1 /\ rate_second_delta > 0) =>
        /\ rl_pc["a"] \in {"check", "sleep", "append"} =>
               \A i \in DOMAIN request_times :
                   rl_now["a"] - request_times[i] <= rate_second_delta
        /\ OldestFirst

\* A call has trimmed an expired timestamp and kept a younger one, and is at
\* the length test while the clock has moved on since it read `now`.
C22_Witness ==
    /\ rate_limit >= 1 /\ rate_second_delta > 0
    /\ rl_pc["a"] = "check"
    /\ request_times # <<>>
    /\ Len(admitted) > Len(request_times)
    /\ Head(request_times) # Head(admitted)
    /\ clock > rl_now["a"]

\* ------------------------------- one caller of one rate limiter, running
\* The steps of a call of limit() or async_limit() that is under way.
LimitRuns ==
    /\ \/ LimitNow("a")
       \/ LimitTrimTest("a")
       \/ LimitTrimCmp("a")
       \/ LimitTrimPop("a")
       \/ LimitCheck("a")
       \/ LimitSleep("a")
       \/ AsyncLimitSleep("a")
       \/ LimitAppend("a")
    /\ UNCHANGED <<loopVars, poolVars, fetchVars, areqVars, crawlVars>>

\* time.time() advances, whatever the caller does.
ClockRuns == Tick /\ UNCHANGED <<rlVars, loopVars, poolVars, fetchVars, areqVars, crawlVars>>

\* The thread that is inside limit() keeps running (time.sleep returns, and
\* async_limit() never suspends), and the clock keeps advancing up to MaxTime.
SpecRLFair ==
    InitRL /\ [][NextRL]_vars /\ WF_vars(LimitRuns) /\ WF_vars(ClockRuns)

\* The caller is inside the polling loop of its k-th call.
InCall(k) ==
    /\ rl_calls["a"] = k
    /\ rl_pc["a"] \in {"now", "trim", "cmp", "pop", "check", "sleep", "append"}

\* C23: with rate_limit >= 1 and rate_second_delta > 0, every call of limit()
\* and of async_limit() returns, provided the clock keeps advancing (here: the
\* call is under way while the clock can still pass every retained timestamp
\* by more than rate_second_delta); and a call returns by the very step that
\* appends one timestamp, the current time, to the window, which is the only
\* step that makes the window grow.
C23_LimitReturns ==
    /\ \A k \in 1..MaxCalls :
           (/\ rate_limit >= 1 /\ rate_second_delta > 0
            /\ InCall(k)
            /\ clock + rate_second_delta < MaxTime)
               ~> (rl_returns["a"] >= k)
    /\ [][(rate_limit >= 1 /\ rate_second_delta > 0) =>
            /\ rl_returns' # rl_returns =>
                   /\ rl_returns'["a"] = rl_returns["a"] + 1
                   /\ request_times' = Append(request_times, clock)
            /\ Len(request_times') > Len(request_times) =>
                   rl_returns'["a"] = rl_returns["a"] + 1]_vars

\* A call of async_limit() found the window full, polled until the oldest
\* timestamp had expired, and has returned with its timestamp appended.
C23_Witness ==
    /\ rate_limit >= 1 /\ rate_second_delta > 0
    /\ rl_pc["a"] = "admitted"
    /\ rl_entry["a"] = "async_limit"
    /\ rl_polled["a"]
    /\ rl_returns["a"] = rl_calls["a"]
    /\ request_times # <<>>
    /\ Last(request_times) = clock
    /\ Last(request_times) > Head(admitted) + rate_second_delta

\* ------------------------------------ threads sharing one rate limiter
\* Each thread calls limit() on the same APIRateLimiter; the interpreter may
\* switch threads between any two of the steps of limit().

\* `self._request_times[0]` after another thread has emptied the deque since
\* this thread's `while self._request_times:` raises IndexError.
HeadOfEmpty(c) ==
    /\ rl_pc[c] = "cmp"
    /\ request_times = <<>>
    /\ rl_pc' = SetAt(rl_pc, c, "IndexError")
    /\ UNCHANGED <<clock, rate_limit, rate_second_delta, request_times, rl_now,
                   rl_entry, rl_calls, rl_returns, rl_polled, admitted>>

\* `self._request_times.popleft()` after another thread has emptied the deque
\* since this thread's comparison raises IndexError.
PopleftOfEmpty(c) ==
    /\ rl_pc[c] = "pop"
    /\ request_times = <<>>
    /\ rl_pc' = SetAt(rl_pc, c, "IndexError")
    /\ UNCHANGED <<clock, rate_limit, rate_second_delta, request_times, rl_now,
                   rl_entry, rl_calls, rl_returns, rl_polled, admitted>>

InitThreads == InitRL

NextThreads ==
    \/ (\E c \in Callers : LimitCall(c, "limit")) /\ UNCHANGED <<loopVars, poolVars, fetchVars, areqVars, crawlVars>>
    \/ (\E c \in Callers : LimitNow(c)) /\ UNCHANGED <<loopVars, poolVars, fetchVars, areqVars, crawlVars>>
    \/ (\E c \in Callers : LimitTrimTest(c)) /\ UNCHANGED <<loopVars, poolVars, fetchVars, areqVars, crawlVars>>
    \/ (\E c \in Callers : LimitTrimCmp(c)) /\ UNCHANGED <<loopVars, poolVars, fetchVars, areqVars, crawlVars>>
    \/ (\E c \in Callers : LimitTrimPop(c)) /\ UNCHANGED <<loopVars, poolVars, fetchVars, areqVars, crawlVars>>
    \/ (\E c \in Callers : LimitCheck(c)) /\ UNCHANGED <<loopVars, poolVars, fetchVars, areqVars, crawlVars>>
    \/ (\E c \in Callers : LimitSleep(c)) /\ UNCHANGED <<loopVars, poolVars, fetchVars, areqVars, crawlVars>>
    \/ (\E c \in Callers : LimitAppend(c)) /\ UNCHANGED <<loopVars, poolVars, fetchVars, areqVars, crawlVars>>
    \/ (\E c \in Callers : LimitExit(c)) /\ UNCHANGED <<loopVars, poolVars, fetchVars, areqVars, crawlVars>>
    \/ (\E c \in Callers : HeadOfEmpty(c)) /\ UNCHANGED <<loopVars, poolVars, fetchVars, areqVars, crawlVars>>
    \/ (\E c \in Callers : PopleftOfEmpty(c)) /\ UNCHANGED <<loopVars, poolVars, fetchVars, areqVars, crawlVars>>
    \/ Tick /\ UNCHANGED <<rlVars, loopVars, poolVars, fetchVars, areqVars, crawlVars>>

SpecThreads == InitThreads /\ [][NextThreads]_vars

\* C24: with one limiter shared by two threads calling limit(), under every
\* interleaving of their steps the window never holds more than rate_limit
\* timestamps, no more than rate_limit admissions fall within any window of
\* rate_second_delta, and no thread fails on an empty window.
C24_BoundUnderThreads ==
    (rate_limit >= 1 /\ rate_second_delta > 0) =>
        /\ Len(request_times) <= rate_limit
        /\ \A T \in 0..MaxTime :
               Cardinality(AdmittedWithin(T, rate_second_delta)) <= rate_limit
        /\ \A c \in Callers : rl_pc[c] # "IndexError"

====
